---- MODULE Spec2Model ----
(***************************************************************************)
(* Expense Tracker API (src/main.py): users, categories and transactions   *)
(* kept in a relational store (SQLite by default), and the request         *)
(* handlers that read and write them on behalf of a bearer-token           *)
(* principal. main.py holds its models and routes twice, word for word;    *)
(* the references below are to the first copy.                             *)
(*                                                                         *)
(* Optional[int] / Optional[str] values are modelled as sets: {} is None   *)
(* and {x} is the value x.                                                 *)
(***************************************************************************)
EXTENDS Integers, Sequences, FiniteSets, TLC

VARIABLES users, cats, txs, regs, inflight, last

vars == <<users, cats, txs, regs, inflight, last>>

(***************************************************************************)
(* Bounds of the model.                                                    *)
(***************************************************************************)
MaxSessions == 2      \* requests that may be in flight at once
MaxCatId == 6         \* create_category is not called beyond this row id
MaxTxId == 2          \* create_transaction is not called beyond this row id

\* The addresses that register; which of them comes first makes no
\* difference to the handlers, so new addresses arrive in this order.
EmailOrder == <<"a@x", "b@x">>

Emails == {EmailOrder[i] : i \in 1..Len(EmailOrder)}

None == {}
Some(x) == {x}
Val(o) == CHOOSE x \in o : TRUE

Max(S) == CHOOSE x \in S : \A y \in S : y <= x

\* SQLite rowid allocation for an INTEGER PRIMARY KEY without AUTOINCREMENT:
\* one more than the largest id in the table, 1 for an empty table.
NextId(table) == IF DOMAIN table = {} THEN 1 ELSE Max(DOMAIN table) + 1

Insert(table, id, row) ==
    [i \in DOMAIN table \cup {id} |-> IF i = id THEN row ELSE table[i]]

Remove(table, id) == [i \in DOMAIN table \ {id} |-> table[i]]

(***************************************************************************)
(* Request inputs the model draws from.                                    *)
(***************************************************************************)
\* Bearer tokens by the subject they decode to; 0 is a token that does not
\* decode (bad signature, expired, garbage).
Tokens == 0..Cardinality(Emails)

\* Path and body ids a caller may send for a category / a transaction.
CatIdInputs == {0, MaxCatId, MaxCatId + 1}
TxIdInputs == 1..(MaxTxId + 1)

\* Names sent in CategoryIn, with their lengths in characters ("x101" stands
\* for a name of 101 characters).
NameInputs == {"", "Misc", "x101"}

StrLen(s) ==
    CASE s = "" -> 0
      [] s = "Misc" -> 4
      [] s = "Food" -> 4
      [] s = "General" -> 7
      [] s = "Transport" -> 9
      [] s = "x101" -> 101

\* Rank of the names under the store's binary collation (ORDER BY name).
NameRank(s) ==
    CASE s = "Food" -> 1
      [] s = "General" -> 2
      [] s = "Misc" -> 3
      [] s = "Transport" -> 4
      [] OTHER -> 5

\* Descriptions are sequences of characters; dates are day numbers.
TxBodies ==
    { [date |-> 1, description |-> <<"a">>, amount |-> 1, type |-> "expense"],
      [date |-> 2, description |-> <<"A", "b">>, amount |-> 2, type |-> "income"],
      [date |-> 2, description |-> <<"b">>, amount |-> 0, type |-> "expense"],
      [date |-> 1, description |-> <<"a">>, amount |-> -1, type |-> "income"],
      [date |-> 1, description |-> <<"a">>, amount |-> 1, type |-> "other"] }

\* Mutant of AmountValid: ge=0 in place of gt=0.
AmountValid_ge(p) == p.amount >= 0

\* TxIn.amount: float = Field(gt=0)
AmountValid(p) == p.amount > 0

\* TxIn.type: str = Field(pattern="^(expense|income)$")
TypeValid(p) == p.type \in {"expense", "income"}

TxInValid(p) == AmountValid(p) /\ TypeValid(p)

\* The detail of the HTTP 422 response: one entry for each field in error.
TxInErrors(p) ==
    (IF AmountValid(p) THEN <<>> ELSE <<[loc |-> "amount"]>>)
    \o (IF TypeValid(p) THEN <<>> ELSE <<[loc |-> "type"]>>)

CatIdOpts == {None} \cup {Some(i) : i \in CatIdInputs}

\* Every valid body with every category_id; the invalid ones with one.
TxPayloads ==
    UNION { { [date |-> b.date, description |-> b.description, amount |-> b.amount,
               type |-> b.type, category_id |-> c] :
                c \in IF TxInValid(b) THEN CatIdOpts ELSE {Some(MaxCatId)} } :
            b \in TxBodies }

\* Query parameters of GET /transactions: the defaults of the signature.
NoFilter ==
    [q |-> None, type |-> None, category_id |-> None, start |-> None,
     end |-> None, limit |-> 50, offset |-> 0]

ListFilters ==
    {NoFilter}
    \cup {[NoFilter EXCEPT !.q = Some(x)] : x \in {<<>>, <<"a">>, <<"B">>}}
    \cup {[NoFilter EXCEPT !.type = Some(x)] : x \in {"expense", "other"}}
    \cup {[NoFilter EXCEPT !.category_id = Some(x)] : x \in {0, MaxCatId}}
    \cup {[NoFilter EXCEPT !.start = Some(2)], [NoFilter EXCEPT !.end = Some(1)]}
    \cup {[NoFilter EXCEPT !.limit = 1, !.offset = o] : o \in {0, 1}}

(***************************************************************************)
(* Request schemas (pydantic models).                                      *)
(***************************************************************************)
\* CategoryIn: name: str = Field(min_length=1, max_length=100)
CategoryInValid(name) == StrLen(name) >= 1 /\ StrLen(name) <= 100

\* Python truthiness of an Optional[int]: None and 0 are false.
Truthy(o) == o # None /\ o # Some(0)

\* Python truthiness of an Optional[str]: None and "" are false.
TruthyStr(o) == o # None /\ o # Some(<<>>)

(***************************************************************************)
(* Authentication.                                                         *)
(***************************************************************************)
\* The authenticated user's id, or None for HTTP 401.
get_user_from_token(token) ==
    IF token \in DOMAIN users THEN Some(token) ELSE None

(***************************************************************************)
(* Handler results: the response status and body, and the tables as the    *)
(* handler's commit leaves them.                                           *)
(***************************************************************************)
Result(status, cs, ts, body) ==
    [status |-> status, cats |-> cs, txs |-> ts, body |-> body]

\* A request that raises before it writes.
FailWith(status, body) == Result(status, cats, txs, body)

Fail(status) == FailWith(status, <<>>)

\* CategoryOut of row id of table cs.
CategoryOut(cs, id) == [id |-> id, name |-> cs[id].name]

\* TxOut of row id of ts; category_name = t.category.name if t.category else None
\* where t.category is the row the ORM loads for t.category_id.
TxOut(cs, ts, id) ==
    [id |-> id, date |-> ts[id].date, description |-> ts[id].description,
     amount |-> ts[id].amount, type |-> ts[id].type,
     category_id |-> ts[id].category_id,
     category_name |->
        IF ts[id].category_id # None /\ Val(ts[id].category_id) \in DOMAIN cs
        THEN Some(cs[Val(ts[id].category_id)].name)
        ELSE None]

(***************************************************************************)
(* Category routes.                                                        *)
(***************************************************************************)
\* Sequences over the ids of S, each id once, by ascending sort key (ids of
\* equal key in any order).
Orderings(S, key) ==
    { s \in [1..Cardinality(S) -> S] :
        /\ \A i, j \in 1..Cardinality(S) : i # j => s[i] # s[j]
        /\ \A i, j \in 1..Cardinality(S) : i < j => key[s[i]] <= key[s[j]] }

\* GET /categories: the results the store may return (rows of equal name
\* come in an order the store chooses).
list_categories(token) ==
    LET u == get_user_from_token(token) IN
    IF u = None THEN {Fail("Unauthenticated")}
    ELSE LET own == {c \in DOMAIN cats : cats[c].owner_id = Val(u)}
             byName == [c \in own |-> NameRank(cats[c].name)]
         IN { Result("OK", cats, txs, [i \in 1..Cardinality(own) |-> CategoryOut(cats, s[i])]) :
                s \in Orderings(own, byName) }

\* POST /categories
create_category(token, name) ==
    LET u == get_user_from_token(token) IN
    IF u = None THEN Fail("Unauthenticated")
    ELSE IF ~CategoryInValid(name) THEN FailWith("InvalidInput", <<[loc |-> "name"]>>)
    ELSE LET id == NextId(cats)
             cs == Insert(cats, id, [name |-> name, owner_id |-> Val(u)])
         IN Result("Created", cs, txs, <<CategoryOut(cs, id)>>)

\* Mutant of update_category: the row is looked up but its owner not compared.
update_category_any_owner(token, category_id, name) ==
    LET u == get_user_from_token(token) IN
    IF u = None THEN Fail("Unauthenticated")
    ELSE IF ~CategoryInValid(name) THEN FailWith("InvalidInput", <<[loc |-> "name"]>>)
    ELSE IF category_id \notin DOMAIN cats THEN Fail("NotFound")
    ELSE LET cs == [cats EXCEPT ![category_id].name = name]
         IN Result("OK", cs, txs, <<CategoryOut(cs, category_id)>>)

\* PUT /categories/{category_id}
update_category(token, category_id, name) ==
    LET u == get_user_from_token(token) IN
    IF u = None THEN Fail("Unauthenticated")
    ELSE IF ~CategoryInValid(name) THEN FailWith("InvalidInput", <<[loc |-> "name"]>>)
    ELSE IF category_id \notin DOMAIN cats \/ cats[category_id].owner_id # Val(u)
         THEN Fail("NotFound")
    ELSE LET cs == [cats EXCEPT ![category_id].name = name]
         IN Result("OK", cs, txs, <<CategoryOut(cs, category_id)>>)

\* Mutant of OrmDeleteCategory: the delete leaves the referencing rows alone.
OrmDeleteCategory_passive(ts, category_id) == ts

\* The ORM's flush of db.delete(c): Category.transactions has no delete
\* cascade, so every Transaction row that references c gets category_id NULL
\* before the Category row is deleted.
OrmDeleteCategory(ts, category_id) ==
    [t \in DOMAIN ts |->
        IF ts[t].category_id = Some(category_id)
        THEN [ts[t] EXCEPT !.category_id = None]
        ELSE ts[t]]

\* Mutant of delete_category: the row is looked up but its owner not compared.
delete_category_any_owner(token, category_id) ==
    LET u == get_user_from_token(token) IN
    IF u = None THEN Fail("Unauthenticated")
    ELSE IF category_id \notin DOMAIN cats THEN Fail("NotFound")
    ELSE Result("NoContent", Remove(cats, category_id),
                OrmDeleteCategory(txs, category_id), <<>>)

\* DELETE /categories/{category_id}
delete_category(token, category_id) ==
    LET u == get_user_from_token(token) IN
    IF u = None THEN Fail("Unauthenticated")
    ELSE IF category_id \notin DOMAIN cats \/ cats[category_id].owner_id # Val(u)
         THEN Fail("NotFound")
    ELSE Result("NoContent", Remove(cats, category_id),
                OrmDeleteCategory(txs, category_id), <<>>)

(***************************************************************************)
(* Transaction routes.                                                     *)
(***************************************************************************)
Lower(c) == CASE c = "A" -> "a" [] c = "B" -> "b" [] OTHER -> c

\* description ILIKE '%q%': case-insensitive, "_" in q matches any one
\* character (q is not escaped).
ILike(description, q) ==
    \E i \in 0..(Len(description) - Len(q)) :
        \A j \in 1..Len(q) :
            q[j] = "_" \/ Lower(q[j]) = Lower(description[i + j])

Min(a, b) == IF a <= b THEN a ELSE b

\* The rows the statement of list_transactions selects for user u.
ListWhere(u, f) ==
    { t \in DOMAIN txs :
        /\ txs[t].owner_id = u
        /\ TruthyStr(f.q) => ILike(txs[t].description, Val(f.q))
        /\ f.type \in {Some("expense"), Some("income")} => txs[t].type = Val(f.type)
        /\ Truthy(f.category_id) => txs[t].category_id = f.category_id
        /\ f.start # None => txs[t].date >= Val(f.start)
        /\ f.end # None => txs[t].date <= Val(f.end) }

\* ORDER BY Transaction.date DESC, as a sort key of the rows.
ByDateDesc(rows) == [t \in rows |-> 0 - txs[t].date]

\* LIMIT f.limit OFFSET f.offset of the ordered rows s, as TxOut.
Page(s, f) ==
    LET lo == Min(f.offset, Len(s))
        hi == Min(f.offset + f.limit, Len(s))
    IN SubSeq([i \in 1..Len(s) |-> TxOut(cats, txs, s[i])], lo + 1, hi)

\* GET /transactions: the results the store may return (rows of equal date
\* come in an order the store chooses).
list_transactions(token, f) ==
    LET u == get_user_from_token(token) IN
    IF u = None THEN {Fail("Unauthenticated")}
    ELSE LET rows == ListWhere(Val(u), f)
         IN { Result("OK", cats, txs, Page(s, f)) :
                s \in Orderings(rows, ByDateDesc(rows)) }

\* Mutant of create_transaction: the response is built from the payload,
\* without the category the stored row resolves to.
create_transaction_echo(token, p) ==
    LET u == get_user_from_token(token) IN
    IF u = None THEN Fail("Unauthenticated")
    ELSE IF ~TxInValid(p) THEN FailWith("InvalidInput", TxInErrors(p))
    ELSE IF /\ Truthy(p.category_id)
            /\ \/ Val(p.category_id) \notin DOMAIN cats
               \/ cats[Val(p.category_id)].owner_id # Val(u)
         THEN Fail("NotFound")
    ELSE LET id == NextId(txs)
             ts == Insert(txs, id,
                     [date |-> p.date, description |-> p.description,
                      amount |-> p.amount, type |-> p.type,
                      category_id |-> p.category_id, owner_id |-> Val(u)])
         IN Result("Created", cats, ts,
                   <<[TxOut(cats, ts, id) EXCEPT !.category_name = None]>>)

\* POST /transactions
create_transaction(token, p) ==
    LET u == get_user_from_token(token) IN
    IF u = None THEN Fail("Unauthenticated")
    ELSE IF ~TxInValid(p) THEN FailWith("InvalidInput", TxInErrors(p))
    ELSE IF /\ Truthy(p.category_id)
            /\ \/ Val(p.category_id) \notin DOMAIN cats
               \/ cats[Val(p.category_id)].owner_id # Val(u)
         THEN Fail("NotFound")
    ELSE LET id == NextId(txs)
             ts == Insert(txs, id,
                     [date |-> p.date, description |-> p.description,
                      amount |-> p.amount, type |-> p.type,
                      category_id |-> p.category_id, owner_id |-> Val(u)])
         IN Result("Created", cats, ts, <<TxOut(cats, ts, id)>>)

\* PUT /transactions/{tx_id}
update_transaction(token, tx_id, p) ==
    LET u == get_user_from_token(token) IN
    IF u = None THEN Fail("Unauthenticated")
    ELSE IF ~TxInValid(p) THEN FailWith("InvalidInput", TxInErrors(p))
    ELSE IF tx_id \notin DOMAIN txs \/ txs[tx_id].owner_id # Val(u)
         THEN Fail("NotFound")
    ELSE IF /\ Truthy(p.category_id)
            /\ \/ Val(p.category_id) \notin DOMAIN cats
               \/ cats[Val(p.category_id)].owner_id # Val(u)
         THEN Fail("NotFound")
    ELSE LET ts == [txs EXCEPT ![tx_id] =
                     [date |-> p.date, description |-> p.description,
                      amount |-> p.amount, type |-> p.type,
                      category_id |-> p.category_id, owner_id |-> txs[tx_id].owner_id]]
         IN Result("OK", cats, ts, <<TxOut(cats, ts, tx_id)>>)

(***************************************************************************)
(* State machine.                                                          *)
(*   users, cats, txs : the committed rows of the three tables, by id      *)
(*   regs             : the register requests in flight (register commits  *)
(*                      twice, so other requests see the state in between) *)
(*   inflight         : the transaction and delete-category requests that  *)
(*                      have done their reads and not yet their commit     *)
(*   last             : the request handled by the latest step (its route,  *)
(*                      token, path id and query parameters) and the       *)
(*                      response                                           *)
(***************************************************************************)
Sessions == DOMAIN regs

Idle == [pc |-> "idle", email |-> "", uid |-> 0]

Response(op, token, id, status, body) ==
    [op |-> op, token |-> token, id |-> id, query |-> NoFilter,
     status |-> status, body |-> body]

Init ==
    /\ users = <<>>
    /\ cats = <<>>
    /\ txs = <<>>
    /\ regs = <<Idle>>
    /\ inflight = <<>>
    /\ last = Response("none", 0, None, "none", <<>>)

\* A handler other than register: one session, one commit.
Respond(op, token, id, r) ==
    /\ cats' = r.cats
    /\ txs' = r.txs
    /\ last' = Response(op, token, id, r.status, r.body)
    /\ UNCHANGED <<users, regs, inflight>>

\* Category ids the users still to be seeded will take.
Reserved ==
    3 * (Cardinality(Emails) - Cardinality(DOMAIN users)
         + Cardinality({s \in Sessions : regs[s].pc = "user_committed"}))

\* The addresses a register request may carry: every registered one, and
\* the first of EmailOrder that is not.
Registered == {users[u].email : u \in DOMAIN users}

EmailInputs ==
    Registered \cup
    {EmailOrder[i] : i \in {j \in 1..Len(EmailOrder) :
        \A k \in 1..j : (EmailOrder[k] \in Registered) <=> (k < j)}}

\* register, up to the existence check (main.py 183-185).
RegisterCheck(s) ==
    \E email \in EmailInputs :
        /\ regs[s].pc = "idle"
        /\ IF \E u \in DOMAIN users : users[u].email = email
           THEN /\ last' = Response("register", 0, None, "Conflict", <<>>)
                /\ UNCHANGED regs
           ELSE /\ regs' = [regs EXCEPT ![s] = [pc |-> "checked", email |-> email, uid |-> 0]]
                /\ last' = Response("register", 0, None, "Pending", <<>>)
        /\ UNCHANGED <<users, cats, txs, inflight>>

\* register, the insert and commit of the User row (main.py 186-189). The
\* UNIQUE index on users.email rejects a second row of the same email: the
\* IntegrityError is not caught and the request ends with HTTP 500.
RegisterInsertUser(s) ==
    /\ regs[s].pc = "checked"
    /\ IF \E u \in DOMAIN users : users[u].email = regs[s].email
       THEN /\ regs' = [regs EXCEPT ![s] = Idle]
            /\ last' = Response("register", 0, None, "ServerError", <<>>)
            /\ UNCHANGED users
       ELSE LET uid == NextId(users) IN
            /\ users' = Insert(users, uid, [email |-> regs[s].email])
            /\ regs' = [regs EXCEPT ![s].pc = "user_committed", ![s].uid = uid]
            /\ last' = Response("register", 0, None, "Pending", <<>>)
    /\ UNCHANGED <<cats, txs, inflight>>

\* register, the three default categories and their commit (main.py 190-194).
RegisterSeed(s) ==
    /\ regs[s].pc = "user_committed"
    /\ LET id == NextId(cats)
           row(name) == [name |-> name, owner_id |-> regs[s].uid]
       IN cats' = Insert(Insert(Insert(cats, id, row("General")),
                                id + 1, row("Food")),
                         id + 2, row("Transport"))
    /\ regs' = [regs EXCEPT ![s] = Idle]
    /\ last' = Response("register", 0, None, "Created",
                        <<[id |-> regs[s].uid, email |-> regs[s].email]>>)
    /\ UNCHANGED <<users, txs, inflight>>

\* The dependency get_user_from_token runs before the body is validated and
\* before the handler: a token that resolves to no user ends any request
\* with HTTP 401, whatever else it carries.
Unauthenticated(op, token) ==
    /\ get_user_from_token(token) = None
    /\ Respond(op, token, None, Fail("Unauthenticated"))

ListCategories ==
    \E token \in Tokens :
        \/ Unauthenticated("list_categories", token)
        \/ /\ get_user_from_token(token) # None
           /\ \E r \in list_categories(token) :
                Respond("list_categories", token, None, r)

CreateCategory ==
    \E token \in Tokens :
        \/ Unauthenticated("create_category", token)
        \/ /\ get_user_from_token(token) # None
           /\ \E name \in NameInputs :
                LET r == create_category(token, name) IN
                /\ r.status = "Created" => NextId(cats) + Reserved <= MaxCatId
                /\ Respond("create_category", token, None, r)

UpdateCategory ==
    \E token \in Tokens :
        \/ Unauthenticated("update_category", token)
        \/ /\ get_user_from_token(token) # None
           /\ \E category_id \in CatIdInputs, name \in NameInputs :
                Respond("update_category", token, Some(category_id),
                        update_category(token, category_id, name))

DeleteCategory ==
    \E token \in Tokens :
        \/ Unauthenticated("delete_category", token)
        \/ /\ get_user_from_token(token) # None
           /\ \E category_id \in CatIdInputs :
                Respond("delete_category", token, Some(category_id),
                        delete_category(token, category_id))

ListTransactions ==
    \E token \in Tokens :
        \/ Unauthenticated("list_transactions", token)
        \/ /\ get_user_from_token(token) # None
           /\ \E f \in ListFilters : \E r \in list_transactions(token, f) :
                /\ cats' = r.cats
                /\ txs' = r.txs
                /\ last' = [Response("list_transactions", token, None, r.status, r.body)
                                EXCEPT !.query = f]
                /\ UNCHANGED <<users, regs, inflight>>

CreateTransaction ==
    \E token \in Tokens :
        \/ Unauthenticated("create_transaction", token)
        \/ /\ get_user_from_token(token) # None
           /\ \E p \in TxPayloads :
                LET r == create_transaction(token, p) IN
                /\ r.status = "Created" => NextId(txs) <= MaxTxId
                /\ Respond("create_transaction", token, None, r)

UpdateTransaction ==
    \E token \in Tokens :
        \/ Unauthenticated("update_transaction", token)
        \/ /\ get_user_from_token(token) # None
           /\ \E tx_id \in TxIdInputs, p \in TxPayloads :
                Respond("update_transaction", token, Some(tx_id),
                        update_transaction(token, tx_id, p))

Next ==
    \/ \E s \in Sessions : RegisterCheck(s)
    \/ \E s \in Sessions : RegisterInsertUser(s)
    \/ \E s \in Sessions : RegisterSeed(s)
    \/ ListCategories
    \/ CreateCategory
    \/ UpdateCategory
    \/ DeleteCategory
    \/ ListTransactions
    \/ CreateTransaction
    \/ UpdateTransaction

\* Requests arrive one after the other; register's two commits are two steps.
Spec == Init /\ [][Next]_vars

\* register requests in flight together, and the category listing.
InitRegister ==
    /\ users = <<>>
    /\ cats = <<>>
    /\ txs = <<>>
    /\ regs = [s \in 1..MaxSessions |-> Idle]
    /\ inflight = <<>>
    /\ last = Response("none", 0, None, "none", <<>>)

NextRegister ==
    \/ \E s \in Sessions : RegisterCheck(s)
    \/ \E s \in Sessions : RegisterInsertUser(s)
    \/ \E s \in Sessions : RegisterSeed(s)
    \/ ListCategories

SpecRegister == InitRegister /\ [][NextRegister]_vars

(***************************************************************************)
(* Requests that overlap. A handler reads (db.get, autocommit reads on the *)
(* default SQLite store: no snapshot and no lock is held afterwards) and   *)
(* later writes and commits; another request's commit may fall in between. *)
(* The store does not enforce the foreign keys (SQLite without             *)
(* PRAGMA foreign_keys), so a commit is never refused for the row it       *)
(* references.                                                             *)
(***************************************************************************)
Requests == DOMAIN inflight

NoPayload ==
    [date |-> 0, description |-> <<>>, amount |-> 0, type |-> "", category_id |-> None]

\* A slot with no request in it.
NoRequest ==
    [pc |-> "idle", op |-> "none", token |-> 0, id |-> None,
     payload |-> NoPayload, loaded |-> None]

\* A request past its reads: the route, the principal, the path id, the body
\* and the Transaction row the session loaded (update_transaction only).
Checked(op, token, id, p, loaded) ==
    [pc |-> "checked", op |-> op, token |-> token, id |-> id,
     payload |-> p, loaded |-> loaded]

\* Transaction rows the create requests in flight will insert.
PendingInserts ==
    Cardinality({s \in Requests : inflight[s].op = "create_transaction"})

\* The bodies overlapping requests carry: every body of TxPayloads that
\* names no category or the category a delete_category request may name.
InterleavedPayloads ==
    {p \in TxPayloads : p.category_id \in {None, Some(MaxCatId)}}

\* A request that ends at its reads (401, 422 or 404), or passes them.
ReadStep(s, op, token, id, p, loaded, r, passed) ==
    /\ inflight[s].pc = "idle"
    /\ IF r.status = passed
       THEN /\ inflight' = [inflight EXCEPT ![s] = Checked(op, token, id, p, loaded)]
            /\ last' = Response(op, token, id, "Pending", <<>>)
       ELSE /\ last' = Response(op, token, id, r.status, r.body)
            /\ UNCHANGED inflight
    /\ UNCHANGED <<users, cats, txs, regs>>

\* A request in flight commits and answers.
CommitStep(s, r) ==
    /\ cats' = r.cats
    /\ txs' = r.txs
    /\ last' = Response(inflight[s].op, inflight[s].token, inflight[s].id,
                        r.status, r.body)
    /\ inflight' = [inflight EXCEPT ![s] = NoRequest]
    /\ UNCHANGED <<users, regs>>

\* create_transaction up to the category check (main.py 278-281).
ReadCreateTransaction(s) ==
    \E token \in Tokens, p \in InterleavedPayloads :
        LET r == create_transaction(token, p) IN
        /\ r.status = "Created" => NextId(txs) + PendingInserts <= MaxTxId
        /\ ReadStep(s, "create_transaction", token, None, p, None, r, "Created")

\* create_transaction from the insert on (main.py 282-297): the row carries
\* the payload's category_id whatever has become of that category; the
\* response resolves the category against the rows as they are now.
create_transaction_commit(req) ==
    LET id == NextId(txs)
        p == req.payload
        ts == Insert(txs, id,
                [date |-> p.date, description |-> p.description,
                 amount |-> p.amount, type |-> p.type,
                 category_id |-> p.category_id, owner_id |-> req.token])
    IN Result("Created", cats, ts, <<TxOut(cats, ts, id)>>)

CommitCreateTransaction(s) ==
    /\ inflight[s].pc = "checked"
    /\ inflight[s].op = "create_transaction"
    /\ CommitStep(s, create_transaction_commit(inflight[s]))

\* update_transaction up to the category check (main.py 301-307).
ReadUpdateTransaction(s) ==
    \E token \in Tokens, tx_id \in TxIdInputs, p \in InterleavedPayloads :
        LET r == update_transaction(token, tx_id, p) IN
        ReadStep(s, "update_transaction", token, Some(tx_id), p,
                 IF tx_id \in DOMAIN txs THEN Some(txs[tx_id]) ELSE None, r, "OK")

\* update_transaction from the assignments on (main.py 308-319): the flush
\* writes the columns whose new value differs from the loaded one, and
\* db.refresh reads the row back.
update_transaction_commit(req) ==
    LET tx_id == Val(req.id)
        p == req.payload
        was == Val(req.loaded)
        now == txs[tx_id]
        ts == [txs EXCEPT ![tx_id] =
                [date |-> IF p.date # was.date THEN p.date ELSE now.date,
                 description |-> IF p.description # was.description
                                 THEN p.description ELSE now.description,
                 amount |-> IF p.amount # was.amount THEN p.amount ELSE now.amount,
                 type |-> IF p.type # was.type THEN p.type ELSE now.type,
                 category_id |-> IF p.category_id # was.category_id
                                 THEN p.category_id ELSE now.category_id,
                 owner_id |-> now.owner_id]]
    IN Result("OK", cats, ts, <<TxOut(cats, ts, tx_id)>>)

CommitUpdateTransaction(s) ==
    /\ inflight[s].pc = "checked"
    /\ inflight[s].op = "update_transaction"
    /\ CommitStep(s, update_transaction_commit(inflight[s]))

\* delete_category up to the ownership check (main.py 232-234).
ReadDeleteCategory(s) ==
    \E token \in Tokens, category_id \in CatIdInputs :
        ReadStep(s, "delete_category", token, Some(category_id), NoPayload, None,
                 delete_category(token, category_id), "NoContent")

\* delete_category from db.delete on (main.py 235-237): the flush loads the
\* Transaction rows that reference the category now, sets their category_id
\* to NULL and deletes the Category row (a DELETE that matches no row is a
\* warning, not an error).
delete_category_commit(req) ==
    Result("NoContent", Remove(cats, Val(req.id)),
           OrmDeleteCategory(txs, Val(req.id)), <<>>)

CommitDeleteCategory(s) ==
    /\ inflight[s].pc = "checked"
    /\ inflight[s].op = "delete_category"
    /\ CommitStep(s, delete_category_commit(inflight[s]))

InitInterleaved ==
    /\ users = <<>>
    /\ cats = <<>>
    /\ txs = <<>>
    /\ regs = <<Idle>>
    /\ inflight = [s \in 1..MaxSessions |-> NoRequest]
    /\ last = Response("none", 0, None, "none", <<>>)

NextInterleaved ==
    \/ \E s \in Sessions : RegisterCheck(s)
    \/ \E s \in Sessions : RegisterInsertUser(s)
    \/ \E s \in Sessions : RegisterSeed(s)
    \/ \E s \in Requests : ReadCreateTransaction(s)
    \/ \E s \in Requests : CommitCreateTransaction(s)
    \/ \E s \in Requests : ReadUpdateTransaction(s)
    \/ \E s \in Requests : CommitUpdateTransaction(s)
    \/ \E s \in Requests : ReadDeleteCategory(s)
    \/ \E s \in Requests : CommitDeleteCategory(s)

\* Transaction and delete-category requests with their reads and their
\* commit as separate steps, MaxSessions of them at once.
SpecInterleaved == InitInterleaved /\ [][NextInterleaved]_vars

(***************************************************************************)
(* Properties.                                                             *)
(***************************************************************************)
\* The rows of a table that user q owns.
OwnedRows(table, q) ==
    [i \in {j \in DOMAIN table : table[j].owner_id = q} |-> table[i]]

Authenticated == {token \in Tokens : get_user_from_token(token) # None}

OwnsCategory(u, id) == id \in DOMAIN cats /\ cats[id].owner_id = u

\* C1: every stored Transaction whose category reference is set references a
\* Category that exists and has the Transaction's owner.
C1_CategoryRefOwned ==
    \A t \in DOMAIN txs :
        txs[t].category_id # None =>
            OwnsCategory(txs[t].owner_id, Val(txs[t].category_id))

\* C2: a category or transaction request with principal P, whatever its
\* outcome, leaves the categories and transactions of every other user Q as
\* they were: the same rows with the same fields.
OwnerScopedOps ==
    {"list_categories", "create_category", "update_category", "delete_category",
     "list_transactions", "create_transaction", "update_transaction"}

C3_NonOwnerNotFound ==
    \A token \in Authenticated :
        /\ \A c \in DOMAIN cats, absent \in CatIdInputs \ DOMAIN cats :
            cats[c].owner_id # token =>
                /\ delete_category(token, c) = Fail("NotFound")
                /\ delete_category(token, absent) = Fail("NotFound")
                /\ \A name \in NameInputs :
                    LET r == update_category(token, c, name) IN
                    /\ r.status = update_category(token, absent, name).status
                    /\ r.status = IF CategoryInValid(name) THEN "NotFound" ELSE "InvalidInput"
                    /\ r.cats = cats /\ r.txs = txs
        /\ \A t \in DOMAIN txs, absent \in TxIdInputs \ DOMAIN txs :
            txs[t].owner_id # token =>
                \A p \in TxPayloads :
                    LET r == update_transaction(token, t, p) IN
                    /\ r.status = update_transaction(token, absent, p).status
                    /\ r.status = IF TxInValid(p) THEN "NotFound" ELSE "InvalidInput"
                    /\ r.cats = cats /\ r.txs = txs

\* An authenticated principal has asked to update a Category that exists and
\* that another user owns, and was answered NotFound.
C3_Witness ==
    /\ last.op = "update_category"
    /\ last.status = "NotFound"
    /\ last.token \in DOMAIN users
    /\ Val(last.id) \in DOMAIN cats
    /\ cats[Val(last.id)].owner_id # last.token

\* C4: create transaction with a supplied category_id that is not the id of
\* a Category the principal owns fails with NotFound or InvalidInput and
\* stores nothing; update transaction likewise, leaving the row as it was.
C4_ForeignCategoryRejected ==
    [][ last'.op \in {"create_transaction", "update_transaction"} =>
            IF last'.status \in {"Created", "OK"}
            THEN \/ last'.body[1].category_id = None
                 \/ OwnsCategory(last'.token, Val(last'.body[1].category_id))
            ELSE /\ last'.status \in {"NotFound", "InvalidInput", "Unauthenticated"}
                 /\ txs' = txs ]_vars

\* C5: when its owner deletes a Category, the Category is gone, every
\* Transaction that referenced it is still there with a null category
\* reference and its other fields as before, and no other row has changed.
C5_DeleteDetaches ==
    \A c \in DOMAIN cats :
        LET r == delete_category(cats[c].owner_id, c) IN
        cats[c].owner_id \in Authenticated =>
            /\ r.status = "NoContent"
            /\ r.cats = Remove(cats, c)
            /\ DOMAIN r.txs = DOMAIN txs
            /\ \A t \in DOMAIN txs :
                r.txs[t] = IF txs[t].category_id = Some(c)
                           THEN [txs[t] EXCEPT !.category_id = None]
                           ELSE txs[t]

\* A Category has been deleted by its owner, who is left with two
\* uncategorized Transactions and no Transaction that names the deleted id.
C5_Witness ==
    /\ last.op = "delete_category"
    /\ last.status = "NoContent"
    /\ Val(last.id) \notin DOMAIN cats
    /\ Cardinality({t \in DOMAIN txs :
            txs[t].owner_id = last.token /\ txs[t].category_id = None}) = 2

\* C6: every User that register has created, in a run where nobody creates,
\* renames or deletes a category, owns exactly three Categories, named
\* General, Food and Transport, in every state another request can see.
DefaultNames == {"General", "Food", "Transport"}

C6_DefaultCategories ==
    \A u \in DOMAIN users :
        LET own == OwnedRows(cats, u) IN
        /\ Cardinality(DOMAIN own) = 3
        /\ {own[c].name : c \in DOMAIN own} = DefaultNames

\* C7: list transactions returns exactly the principal's Transactions that
\* satisfy every supplied filter (kind equal to the given kind, category
\* equal to the given category_id, date within [start, end], description
\* containing q without regard to case), by descending date, cut by offset
\* and limit.
Contains(description, q) ==
    \E i \in 0..(Len(description) - Len(q)) :
        \A j \in 1..Len(q) : Lower(q[j]) = Lower(description[i + j])

SatisfyEveryFilter(u, f) ==
    { t \in DOMAIN txs :
        /\ txs[t].owner_id = u
        /\ f.q # None => Contains(txs[t].description, Val(f.q))
        /\ f.type # None => txs[t].type = Val(f.type)
        /\ f.category_id # None => txs[t].category_id = f.category_id
        /\ f.start # None => txs[t].date >= Val(f.start)
        /\ f.end # None => txs[t].date <= Val(f.end) }

C7_ListExact ==
    (last.op = "list_transactions" /\ last.status = "OK") =>
        LET rows == SatisfyEveryFilter(last.token, last.query)
        IN \E s \in Orderings(rows, ByDateDesc(rows)) :
            last.body = Page(s, last.query)

\* C8: the record create transaction returns and the record the principal
\* then reads for that id (in the listing, the API's only read) agree on
\* id, date, description, amount, kind, category_id and category_name.
C8_RoundTrip ==
    (last.op = "create_transaction" /\ last.status = "Created") =>
        \A r \in list_transactions(last.token, NoFilter) :
            /\ \E i \in 1..Len(r.body) : r.body[i] = last.body[1]
            /\ \A i \in 1..Len(r.body) :
                r.body[i].id = last.body[1].id => r.body[i] = last.body[1]

\* A Transaction with a category has just been created.
C8_Witness ==
    /\ last.op = "create_transaction"
    /\ last.status = "Created"
    /\ last.body[1].category_name # None

\* C9: every stored Transaction has an amount above 0; create and update
\* with an amount of 0 or less, of any kind, by an authenticated principal
\* fail with InvalidInput and leave the transactions as they were.
C9_AmountPositive ==
    /\ \A t \in DOMAIN txs : txs[t].amount > 0
    /\ \A token \in Authenticated, p \in TxPayloads :
        p.amount <= 0 =>
            /\ create_transaction(token, p).status = "InvalidInput"
            /\ create_transaction(token, p).txs = txs
            /\ \A t \in TxIdInputs :
                /\ update_transaction(token, t, p).status = "InvalidInput"
                /\ update_transaction(token, t, p).txs = txs

\* The owner of a Transaction has asked to update it with an amount the
\* schema rejects, and was answered InvalidInput.
C9_Witness ==
    /\ last.op = "update_transaction"
    /\ last.status = "InvalidInput"
    /\ last.body = <<[loc |-> "amount"]>>
    /\ Val(last.id) \in DOMAIN txs
    /\ txs[Val(last.id)].owner_id = last.token

\* C10: no two Users share an email, and a register request that fails
\* because its email is taken fails with Conflict and creates neither a User
\* nor a Category, also when it passed the existence check before the other
\* request inserted.
C10_DuplicateEmailConflict ==
    [][ /\ \A u, v \in DOMAIN users' :
            u # v => users'[u].email # users'[v].email
        /\ (last'.op = "register" /\ last'.status \notin {"Pending", "Created"}) =>
            /\ last'.status = "Conflict"
            /\ users' = users
            /\ cats' = cats ]_vars

\* C11: once no request is in flight, no transaction names a category that
\* has been deleted: every category_id other than NULL and 0 is the id of a
\* Category row.
C11_NoDeletedCategoryRef ==
    (\A s \in Requests : inflight[s].pc = "idle") =>
        \A t \in DOMAIN txs :
            Truthy(txs[t].category_id) => Val(txs[t].category_id) \in DOMAIN cats

====
